---- MODULE Spec2Model ----
(***************************************************************************)
(* Model of the Piper TTS HTTP service (src/piper_api.py).                 *)
(*                                                                         *)
(* A text is a Python str, represented as a sequence of runs               *)
(* [ch |-> code point, n |-> repetitions]; <<[ch |-> 32, n |-> 1001]>> is  *)
(* the string of 1001 spaces.  The file system is the set of voice files   *)
(* present under /app/voices plus the temporary directory.  The external   *)
(* executable /usr/local/bin/piper is assumed to be installed; what it     *)
(* does to its output file and how it ends is chosen nondeterministically. *)
(***************************************************************************)
EXTENDS Integers, Sequences, FiniteSets, TLC

\* ---------------------------------------------------------------- bounds
NumReqs == 2
MaxTemp == 2
MaxRuns == 2
MaxRunLen == 2

Reqs == 1..NumReqs
TempNames == 1..MaxTemp

None == "None"

VARIABLES voiceFiles, tmp, req, dtext, dlang
vars == <<voiceFiles, tmp, req, dtext, dlang>>

\* ------------------------------------------------------- voice registry
RUSSIAN_VOICE == [language |-> "ru", model |-> "ru.onnx", config |-> "ru.onnx.json"]
ENGLISH_VOICE == [language |-> "en", model |-> "en.onnx", config |-> "en.onnx.json"]

VoicePaths == {RUSSIAN_VOICE.model, RUSSIAN_VOICE.config,
               ENGLISH_VOICE.model, ENGLISH_VOICE.config}

\* -------------------------------------------------------------- strings
RECURSIVE TextLen(_)
TextLen(text) == IF text = <<>> THEN 0 ELSE Head(text).n + TextLen(Tail(text))

\* str.isspace for the code points below U+0100
IsSpace(c) == c \in {9, 10, 11, 12, 13, 28, 29, 30, 31, 32, 133, 160}

RECURSIVE LStrip(_)
LStrip(text) ==
    IF text = <<>> THEN <<>>
    ELSE IF IsSpace(Head(text).ch) THEN LStrip(Tail(text))
    ELSE text

RECURSIVE RStrip(_)
RStrip(text) ==
    IF text = <<>> THEN <<>>
    ELSE IF IsSpace(text[Len(text)].ch) THEN RStrip(SubSeq(text, 1, Len(text) - 1))
    ELSE text

Strip(text) == RStrip(LStrip(text))

\* str.lower for one character: ASCII A-Z, Cyrillic U+0410..U+042F (+32)
\* and U+0400..U+040F (+80)
Lower(c) ==
    IF c \in 65..90 THEN c + 32
    ELSE IF c \in 1040..1071 THEN c + 32
    ELSE IF c \in 1024..1039 THEN c + 80
    ELSE c

IsRussianChar(c) == 1072 <= Lower(c) /\ Lower(c) <= 1103
IsEnglishChar(c) == 97 <= Lower(c) /\ Lower(c) <= 122

RECURSIVE russian_chars(_)
russian_chars(text) ==
    IF text = <<>> THEN 0
    ELSE (IF IsRussianChar(Head(text).ch) THEN Head(text).n ELSE 0)
         + russian_chars(Tail(text))

RECURSIVE english_chars(_)
english_chars(text) ==
    IF text = <<>> THEN 0
    ELSE (IF IsEnglishChar(Head(text).ch) THEN Head(text).n ELSE 0)
         + english_chars(Tail(text))

detect_language(text) ==
    IF russian_chars(text) > english_chars(text) THEN "ru" ELSE "en"

\* ----------------------------------------------------------- exceptions
\* Direct base class of each exception class the handlers can see
Base(cls) ==
    CASE cls = "HTTPException" -> "Exception"
      [] cls = "ValueError" -> "Exception"
      [] cls = "RuntimeError" -> "Exception"
      [] cls = "FileNotFoundError" -> "OSError"
      [] cls = "OSError" -> "Exception"
      [] cls = "TimeoutExpired" -> "SubprocessError"
      [] cls = "SubprocessError" -> "Exception"
      [] OTHER -> "BaseException"

RECURSIVE IsInstance(_, _)
IsInstance(cls, target) ==
    IF cls = target THEN TRUE
    ELSE IF cls = "BaseException" THEN FALSE
    ELSE IsInstance(Base(cls), target)

\* The except chain of synthesize / synthesize_raw: first matching clause
Translate(cls) ==
    IF IsInstance(cls, "ValueError") THEN [status |-> 400, branch |-> "ValueError"]
    ELSE IF IsInstance(cls, "FileNotFoundError") THEN [status |-> 500, branch |-> "FileNotFoundError"]
    ELSE IF IsInstance(cls, "RuntimeError") THEN [status |-> 500, branch |-> "RuntimeError"]
    ELSE [status |-> 500, branch |-> "Exception"]

\* ---------------------------------------------------------------- state
NoFile == [owner |-> 0, kind |-> "none", data |-> ""]

IdleReq == [pc |-> "idle", endpoint |-> None, text |-> <<>>, language |-> None,
            voice |-> None, temp_path |-> 0, audio_data |-> None, exc |-> None,
            status |-> 0, branch |-> None, detected |-> FALSE,
            created |-> 0, spawned |-> 0, listed |-> {}]

\* Request inputs
Endpoints == {"synthesize", "synthesize-raw"}
ReqChars == {32, 97, 1087}
ReqLens == {1, 1000, 1001}
ReqTexts == {<<>>} \cup {<<[ch |-> c, n |-> k]>> : c \in ReqChars, k \in ReqLens}
Hints == {None, "", "ru", "en", "de"}
ConcTexts == {<<[ch |-> 97, n |-> 1]>>}
ConcHints == {None}
WavData == {"wavA", "wavB"}

\* Inputs of the language detector
DetectChars == {32, 49, 65, 122, 1040, 1103, 1025, 1105}
DetectRuns == [ch : DetectChars, n : 1..MaxRunLen]
DetectTexts == UNION {[1..k -> DetectRuns] : k \in 0..MaxRuns}

Init ==
    /\ voiceFiles \in SUBSET VoicePaths
    /\ tmp = [n \in TempNames |-> NoFile]
    /\ req = [r \in Reqs |-> IdleReq]
    /\ dtext = <<>>
    /\ dlang = None

\* ----------------------------------------------------- synthesize_speech
Falsy(language) == language = None \/ language = ""

\* Variant: the hint is ignored and the detector always decides
ResolveLanguageAlwaysDetect(text, language) == detect_language(text)

ResolveLanguage(text, language) ==
    IF Falsy(language) THEN detect_language(text) ELSE language

SelectVoice(language) ==
    IF language = "ru" THEN RUSSIAN_VOICE ELSE ENGLISH_VOICE

\* Variant: only the model file is checked
VoiceFilesExistModelOnly(voice, fs) == voice.model \in fs

VoiceFilesExist(voice, fs) == voice.model \in fs /\ voice.config \in fs

\* An exception reaches the handler's except chain and becomes the response
HandlerRaise(rec, cls) ==
    [rec EXCEPT !.pc = "done", !.exc = cls,
                !.status = Translate(cls).status,
                !.branch = Translate(cls).branch]

\* Variant: the name is not created exclusively
FreeNamesAnyName(t) == TempNames

\* tempfile.NamedTemporaryFile creates exclusively: only unused names
FreeNames(t) == {n \in TempNames : t[n] = NoFile}

\* Handler entry up to the voice-file check
SynthesizeEnter(r, ep, t, l) ==
    /\ req[r].pc = "idle"
    /\ LET rec == [IdleReq EXCEPT !.endpoint = ep, !.text = t, !.language = l]
       IN req' = [req EXCEPT ![r] =
            IF TextLen(t) > 1000 THEN HandlerRaise(rec, "HTTPException")
            ELSE IF Strip(t) = <<>> THEN HandlerRaise(rec, "ValueError")
            ELSE LET voice == SelectVoice(ResolveLanguage(t, l))
                     sel == [rec EXCEPT !.voice = voice.language,
                                        !.detected = Falsy(l)]
                 IN IF ~VoiceFilesExist(voice, voiceFiles)
                    THEN HandlerRaise(sel, "FileNotFoundError")
                    ELSE [sel EXCEPT !.pc = "mktemp"]]
    /\ UNCHANGED <<voiceFiles, tmp, dtext, dlang>>

CreateTempFile(r) ==
    /\ req[r].pc = "mktemp"
    /\ \E n \in FreeNames(tmp) :
        /\ tmp' = [tmp EXCEPT ![n] = [owner |-> r, kind |-> "out", data |-> ""]]
        /\ req' = [req EXCEPT ![r].pc = "run", ![r].temp_path = n,
                              ![r].created = @ + 1]
    /\ UNCHANGED <<voiceFiles, dtext, dlang>>

\* subprocess.run(cmd, timeout=30): exit 0 with a WAV written, non-zero exit,
\* or TimeoutExpired after the child was killed (possibly mid-write)
RunPiper(r) ==
    /\ req[r].pc = "run"
    /\ \/ \E d \in WavData :
            /\ tmp' = [tmp EXCEPT ![req[r].temp_path].data = d]
            /\ req' = [req EXCEPT ![r].pc = "read", ![r].spawned = @ + 1]
       \/ /\ tmp' = tmp
          /\ req' = [req EXCEPT ![r].pc = "cleanup", ![r].spawned = @ + 1,
                                ![r].exc = "RuntimeError"]
       \/ \E d \in {"", "partial"} :
            /\ tmp' = [tmp EXCEPT ![req[r].temp_path].data = d]
            /\ req' = [req EXCEPT ![r].pc = "cleanup", ![r].spawned = @ + 1,
                                  ![r].exc = "TimeoutExpired"]
    /\ UNCHANGED <<voiceFiles, dtext, dlang>>

\* open(temp_path, "rb").read(); the read may fail with an OSError
ReadOutput(r) ==
    /\ req[r].pc = "read"
    /\ \/ req' = [req EXCEPT ![r].pc = "cleanup",
                             ![r].audio_data = tmp[req[r].temp_path].data]
       \/ req' = [req EXCEPT ![r].pc = "cleanup", ![r].exc = "OSError"]
    /\ UNCHANGED <<voiceFiles, tmp, dtext, dlang>>

\* Variant: the unlink runs only when no exception is pending
CleanupOnSuccessOnly(r) ==
    /\ req[r].pc = "cleanup"
    /\ tmp' = IF req[r].exc = None /\ tmp[req[r].temp_path] # NoFile
              THEN [tmp EXCEPT ![req[r].temp_path] = NoFile]
              ELSE tmp
    /\ req' = [req EXCEPT ![r] =
            IF req[r].exc # None THEN HandlerRaise(req[r], req[r].exc)
            ELSE IF req[r].endpoint = "synthesize-raw"
                 THEN [req[r] EXCEPT !.pc = "done", !.status = 200]
                 ELSE [req[r] EXCEPT !.pc = "respfile"]]
    /\ UNCHANGED <<voiceFiles, dtext, dlang>>

\* finally: unlink if the path exists; then the handler continues
Cleanup(r) ==
    /\ req[r].pc = "cleanup"
    /\ tmp' = IF tmp[req[r].temp_path] # NoFile
              THEN [tmp EXCEPT ![req[r].temp_path] = NoFile]
              ELSE tmp
    /\ req' = [req EXCEPT ![r] =
            IF req[r].exc # None THEN HandlerRaise(req[r], req[r].exc)
            ELSE IF req[r].endpoint = "synthesize-raw"
                 THEN [req[r] EXCEPT !.pc = "done", !.status = 200]
                 ELSE [req[r] EXCEPT !.pc = "respfile"]]
    /\ UNCHANGED <<voiceFiles, dtext, dlang>>

\* synthesize: second NamedTemporaryFile(delete=False) backing the FileResponse
CreateResponseFile(r) ==
    /\ req[r].pc = "respfile"
    /\ \E n \in FreeNames(tmp) :
        tmp' = [tmp EXCEPT ![n] = [owner |-> r, kind |-> "resp",
                                   data |-> req[r].audio_data]]
    /\ req' = [req EXCEPT ![r].pc = "done", ![r].status = 200]
    /\ UNCHANGED <<voiceFiles, dtext, dlang>>

\* GET /voices
ListVoices(r) ==
    /\ req[r].pc = "idle"
    /\ req' = [req EXCEPT ![r] = [IdleReq EXCEPT
            !.pc = "done", !.endpoint = "voices", !.status = 200,
            !.listed = (IF RUSSIAN_VOICE.model \in voiceFiles THEN {"ru"} ELSE {})
                       \cup (IF ENGLISH_VOICE.model \in voiceFiles THEN {"en"} ELSE {})]]
    /\ UNCHANGED <<voiceFiles, tmp, dtext, dlang>>

\* The response has been sent and the request's task ends; files it left
\* behind belong to no request in flight (owner 0)
Finish(r) ==
    /\ req[r].pc = "done"
    /\ req' = [req EXCEPT ![r] = IdleReq]
    /\ tmp' = [n \in TempNames |->
                IF tmp[n].owner = r THEN [tmp[n] EXCEPT !.owner = 0] ELSE tmp[n]]
    /\ UNCHANGED <<voiceFiles, dtext, dlang>>

\* A voice file is installed or removed under /app/voices
EnvVoiceFile ==
    /\ \E f \in VoicePaths :
        voiceFiles' = IF f \in voiceFiles THEN voiceFiles \ {f}
                      ELSE voiceFiles \cup {f}
    /\ UNCHANGED <<tmp, req, dtext, dlang>>

\* ------------------------------------------------------- specifications
\* Spec: one event loop; the async handlers never await, so a request runs
\* to its response before the next one starts.
NoOtherInFlight(r) == \A q \in Reqs \ {r} : req[q].pc = "idle"

SerialSynthesize ==
    \E r \in Reqs, ep \in Endpoints, t \in ReqTexts, l \in Hints :
        NoOtherInFlight(r) /\ SynthesizeEnter(r, ep, t, l)

SerialListVoices == \E r \in Reqs : NoOtherInFlight(r) /\ ListVoices(r)

Step ==
    \E r \in Reqs :
        \/ CreateTempFile(r)
        \/ RunPiper(r)
        \/ ReadOutput(r)
        \/ Cleanup(r)
        \/ CreateResponseFile(r)
        \/ Finish(r)

Next == SerialSynthesize \/ SerialListVoices \/ Step \/ EnvVoiceFile

Spec == Init /\ [][Next]_vars

\* ConcSpec: requests handled by several workers sharing the temporary
\* directory; their steps interleave at every file-system or process call.
ConcInit ==
    /\ voiceFiles = VoicePaths
    /\ tmp = [n \in TempNames |-> NoFile]
    /\ req = [r \in Reqs |-> IdleReq]
    /\ dtext = <<>>
    /\ dlang = None

ConcSynthesize ==
    \E r \in Reqs, ep \in Endpoints, t \in ConcTexts, l \in ConcHints :
        SynthesizeEnter(r, ep, t, l)

ConcNext == ConcSynthesize \/ Step

ConcSpec == ConcInit /\ [][ConcNext]_vars

\* DetectSpec: detect_language applied to every bounded text
DetectInit ==
    /\ voiceFiles = VoicePaths
    /\ tmp = [n \in TempNames |-> NoFile]
    /\ req = [r \in Reqs |-> IdleReq]
    /\ dtext \in DetectTexts
    /\ dlang = None

Detect ==
    /\ dlang = None
    /\ dlang' = detect_language(dtext)
    /\ UNCHANGED <<voiceFiles, tmp, req, dtext>>

DetectNext == Detect

DetectSpec == DetectInit /\ [][DetectNext]_vars

\* --------------------------------------------------------------- claims
\* Vocabulary of the claims, stated independently of the handlers
IsBlank(text) == \A i \in 1..Len(text) : IsSpace(text[i].ch)

BothFilesPresent(lang) ==
    IF lang = "ru"
    THEN RUSSIAN_VOICE.model \in voiceFiles /\ RUSSIAN_VOICE.config \in voiceFiles
    ELSE ENGLISH_VOICE.model \in voiceFiles /\ ENGLISH_VOICE.config \in voiceFiles

IsSynthesis(r) == req[r].endpoint \in Endpoints

\* Letters of the Russian alphabet: U+0410..U+044F plus U+0401 and U+0451
IsRussianLetter(c) == c \in 1040..1103 \/ c = 1025 \/ c = 1105
IsLatinLetter(c) == c \in 65..90 \/ c \in 97..122

RECURSIVE CountRussian(_)
CountRussian(text) ==
    IF text = <<>> THEN 0
    ELSE (IF IsRussianLetter(Head(text).ch) THEN Head(text).n ELSE 0)
         + CountRussian(Tail(text))

RECURSIVE CountLatin(_)
CountLatin(text) ==
    IF text = <<>> THEN 0
    ELSE (IF IsLatinLetter(Head(text).ch) THEN Head(text).n ELSE 0)
         + CountLatin(Tail(text))

\* The request holds the path of its output file
Holding(r) == req[r].pc \in {"run", "read", "cleanup"}

OutFilesOf(r) == {n \in TempNames : tmp[n].owner = r /\ tmp[n].kind = "out"}

\* C1: on both synthesis endpoints a text longer than 1000 characters is
\* answered with 400 and no temporary file or subprocess is created for it;
\* a text of at most 1000 characters is never rejected for its length.
C1_LengthLimit ==
    \A r \in Reqs :
        (req[r].pc = "done" /\ IsSynthesis(r)) =>
            /\ TextLen(req[r].text) > 1000 =>
                    req[r].status = 400 /\ req[r].created = 0 /\ req[r].spawned = 0
            /\ TextLen(req[r].text) <= 1000 => req[r].exc # "HTTPException"

\* C2: GET /voices lists a language only if both its model file and its
\* config file exist at the moment of the call.
C2_ListsOnlyCompleteVoices ==
    [][\A r \in Reqs :
        (req[r].pc = "idle" /\ req'[r].pc = "done" /\ req'[r].endpoint = "voices")
            => \A lang \in req'[r].listed : BothFilesPresent(lang)]_vars

\* C3: once synthesize_speech has ended, the output file it acquired no
\* longer exists, whichever way it ended; and the bytes it read are exactly
\* the contents of the output file.
C3_TempFileReleased ==
    \A r \in Reqs :
        /\ (req[r].pc \in {"respfile", "done"} /\ req[r].created > 0)
                => OutFilesOf(r) = {}
        /\ (req[r].pc = "cleanup" /\ req[r].exc = None)
                => /\ tmp[req[r].temp_path].owner = r
                   /\ req[r].audio_data = tmp[req[r].temp_path].data
                   /\ req[r].audio_data \in WavData

C3_Witness ==
    \E r, q \in Reqs :
        /\ req[r].pc = "done" /\ req[r].status = 200 /\ req[r].created = 1
        /\ req[r].audio_data \in WavData
        /\ req[q].pc = "done" /\ req[q].exc = "TimeoutExpired" /\ req[q].created = 1

\* C4: whenever no request is in flight, no temporary file created by the
\* service exists.
C4_NoTempFilesAtRest ==
    (\A r \in Reqs : req[r].pc = "idle") => \A n \in TempNames : tmp[n] = NoFile

\* C5: a blank text is answered with 400 on both synthesis endpoints, before
\* any voice selection, temporary file or subprocess.
C5_BlankRejected ==
    \A r \in Reqs :
        (req[r].pc = "done" /\ IsSynthesis(r) /\ IsBlank(req[r].text)) =>
            /\ req[r].status = 400
            /\ req[r].voice = None /\ req[r].created = 0 /\ req[r].spawned = 0

\* C6: for a non-blank text of at most 1000 characters, the request fails
\* with FileNotFoundError and status 500, without temporary file or
\* subprocess, when a file of the resolved voice is missing at the check;
\* when both are present it proceeds, whatever the other language's files.
C6_VoiceNotFound ==
    [][\A r \in Reqs :
        (/\ req[r].pc = "idle" /\ req'[r].pc # "idle" /\ req'[r].endpoint \in Endpoints
         /\ ~IsBlank(req'[r].text) /\ TextLen(req'[r].text) <= 1000)
        => IF BothFilesPresent(req'[r].voice)
           THEN req'[r].pc = "mktemp" /\ req'[r].exc = None
           ELSE /\ req'[r].pc = "done" /\ req'[r].exc = "FileNotFoundError"
                /\ req'[r].status = 500 /\ req'[r].branch = "FileNotFoundError"
                /\ req'[r].created = 0 /\ req'[r].spawned = 0 /\ tmp' = tmp]_vars

C6_Witness ==
    \E r \in Reqs :
        /\ req[r].pc = "done" /\ IsSynthesis(r) /\ req[r].exc = "FileNotFoundError"
        /\ req[r].status = 500 /\ req[r].created = 0
        /\ ~IsBlank(req[r].text) /\ TextLen(req[r].text) = 1000
        /\ req[r].voice = "ru" /\ BothFilesPresent("en")

\* C7: a request that reaches the subprocess step spawns exactly one
\* subprocess, and a non-zero exit and a timeout both end in the RuntimeError
\* branch with status 500.
C7_SubprocessFailure ==
    \A r \in Reqs :
        (req[r].pc = "done" /\ IsSynthesis(r) /\ req[r].created > 0) =>
            /\ req[r].spawned = 1
            /\ req[r].exc \in {"RuntimeError", "TimeoutExpired"} =>
                    req[r].status = 500 /\ req[r].branch = "RuntimeError"

\* C8: detect_language returns "ru" for a non-empty text of Russian letters
\* only, "en" for a text of Latin letters only, and "ru" exactly when the
\* Russian letters outnumber the Latin letters.
C8_DetectLanguage ==
    dlang # None =>
        /\ (dtext # <<>> /\ \A i \in 1..Len(dtext) : IsRussianLetter(dtext[i].ch))
                => dlang = "ru"
        /\ (\A i \in 1..Len(dtext) : IsLatinLetter(dtext[i].ch)) => dlang = "en"
        /\ dlang = "ru" <=> CountRussian(dtext) > CountLatin(dtext)

\* C9: requests in flight hold pairwise distinct temporary paths, and the
\* path a request holds always names the output file that request created.
C9_DistinctTempPaths ==
    \A r \in Reqs :
        Holding(r) =>
            /\ tmp[req[r].temp_path].owner = r
            /\ tmp[req[r].temp_path].kind = "out"
            /\ \A q \in Reqs \ {r} : Holding(q) => req[q].temp_path # req[r].temp_path

C9_Witness ==
    \E r, q \in Reqs :
        /\ r # q /\ req[r].pc = "cleanup" /\ req[q].pc = "read"
        /\ req[r].temp_path # req[q].temp_path

\* C10: the voice of a request is the one registered for the hint when the
\* hint is "ru" or "en" (the detector is not consulted), and the one
\* registered for detect_language(text) when no hint is given.
C10_VoiceFromLanguage ==
    \A r \in Reqs :
        (req[r].pc # "idle" /\ IsSynthesis(r)) =>
            /\ (~IsBlank(req[r].text) /\ TextLen(req[r].text) <= 1000)
                    => req[r].voice \in {"ru", "en"}
            /\ req[r].voice # None =>
                /\ req[r].language \in {"ru", "en"} =>
                        ~req[r].detected /\ req[r].voice = req[r].language
                /\ req[r].language = None =>
                        req[r].detected /\ req[r].voice = detect_language(req[r].text)

C10_Witness ==
    \E r \in Reqs :
        /\ req[r].pc = "done" /\ req[r].status = 200
        /\ req[r].language = "ru" /\ req[r].voice = "ru"
        /\ detect_language(req[r].text) = "en"

====
